---- MODULE Spec2Model ----
(***************************************************************************)
(* TripChain road-bump detector: the three client flows of the repository  *)
(*   "simple" : src/frontend/src/App.js   (fixed sliders, no speed/path)   *)
(*   "auto"   : src/unnamed/part_000      (speed auto-tune, path, segments)*)
(*   "jerk"   : src/backend/index.js:49-293 (high-pass + jerk detector)    *)
(* One behaviour runs one flow; the variable flow is chosen in Init.       *)
(* The relay server of src/backend/index.js:1-47 is a process of its own   *)
(* (RelaySpec), and the pure computations of part_000 are also run on      *)
(* inputs wider than one bounded client run delivers (SegSpec, TuneSpec,   *)
(* PosSpec).  StartSpec runs the Start and Stop buttons alone and records  *)
(* what each permission request met; EchoSpec runs the jerk client         *)
(* connected to the relay.                                                 *)
(*                                                                         *)
(* Units.  Time is in ms (Date.now()).  Acceleration is in 0.001 m/s^2,    *)
(* speed in 0.01 km/h, distance in cm.  A coordinate unit is 1 m of arc    *)
(* (1/111194.9 degree at R = 6371000 m), so that points a whole number of  *)
(* units apart on one axis are that many metres apart.  The                *)
(* code's floating point values are carried at these resolutions.          *)
(*                                                                         *)
(* React scheduling.  A state update made in a geolocation callback or     *)
(* after an await is rendered in a later task, and the passive effect that *)
(* re-registers the devicemotion listener runs after that render, so a     *)
(* motion sample can be dispatched to the previous listener in between:    *)
(* motionEffect is a step of its own.  Updates made in a click or change   *)
(* handler (Stop, sliders, the auto-tune switch) are flushed, effects      *)
(* included, before the handler's task ends (React 18 discrete events), so *)
(* those actions contain their effect run.  startDetection changes nothing *)
(* before its await, so it is one step, taken when the request resolves;   *)
(* the jerk flow's start() sets the status first and is two steps.         *)
(***************************************************************************)
EXTENDS Integers, Sequences, FiniteSets

\* ---------------------------------------------------------------- bounds
\* Date.now() when the component is constructed (stands for ~1.7e12), and
\* at the time origin of performance.now(), the earlier start of the page load.
StartClock == 10000
TimeOrigin == 9500
\* Last clock value explored.
MaxClock == 11500
\* Position fixes delivered in one behaviour.
MaxFixes == 3
\* Entries of the display list / messages emitted in one behaviour.
MaxBumps == 2
\* Callbacks dispatched in one behaviour.
MaxEvents == 7
\* start() calls awaiting the permission prompt at one time.
MaxPending == 2
\* Cap of the Path; the source's literal is 10000 (part_000:143).
PathCap == 2
\* Sockets that may connect to the relay.
MaxSockets == 2
\* Cap of the relay's store and size of the 'heat:init' slice; the source's
\* literals are 20000 and 5000 (backend/index.js:35, 23).
StoreCap == 3
InitCap == 2
\* 'pos' and 'bump' messages the relay handles in one behaviour.
MaxArrivals == 4
\* Points of the Path handed to addRedSegmentNear on its own, and the
\* largest coordinate of one, in tens of metres.
MaxSegLen == 5
MaxSegCoord == 4
\* Speeds handed to getAutoParams on its own: every 0.5 km/h up to this
\* many steps, and the values next to the bracket limits.
MaxSpeedStep == 130
\* Calls of handlePos made on its own, one after the other.
MaxCalls == 2

TickSteps == {500, 1000}

\* ------------------------------------------------------ values and inputs
\* null and a present value v of a nullable field are <<>> and <<v>>.
NoSpeed == <<>>
NoGeo == <<>>
NoHandler == <<>>

\* Delhi default of useState, 28.6139 and 77.209 degrees in units of 1 m.
DefaultPosition == [lat |-> 3181720, lon |-> 8585250]

\* Coordinates the location source reports.
FixCoords == {[lat |-> 0, lon |-> 0], [lat |-> 0, lon |-> 10]}
\* coords.speed of a fix, m/s; NoSpeed is null.
NativeSpeeds == {NoSpeed, <<20>>}
\* coords.speed of a fix in the jerk flow, m/s: null, below cfg.minSpeedMps
\* and equal to it.
JerkSpeeds == {NoSpeed, <<1>>, <<2>>}
\* accelerationIncludingGravity.z of a sample (x = y = 0), 0.001 m/s^2.
AccelSamples == {21810, 27810}

\* Slider positions tried: sensitivity (0.001 m/s^2) and cooldown (ms).
SensitivityChoices == {12000, 6000}
CooldownChoices == {2000, 1000}

\* Records another device published, as delivered by 'new-bump'.
RemoteBumps == {[id |-> 7, time |-> 0, coords |-> [lat |-> 50, lon |-> 50],
                 accel |-> 1300, speedKmh |-> 10]}

Abs(x) == IF x < 0 THEN -x ELSE x
Min(a, b) == IF a < b THEN a ELSE b
Max(a, b) == IF a < b THEN b ELSE a
Last(s) == s[Len(s)]

VARIABLES
    flow,               \* which client is running
    clock,              \* Date.now()
    position,           \* useState position
    speedKmh,           \* useState speedKmh (0.01 km/h)
    accel,              \* useState accel.linear
    bumps,              \* useState bumps: display list, newest first
    detecting,          \* useState detecting
    connected,          \* useState connected
    autoTune,           \* useState autoTune
    manualSensitivity,  \* useState manualSensitivity / sensitivity
    manualCooldownMs,   \* useState manualCooldownMs / cooldownMs
    lastGeoRef,         \* useRef lastGeoRef
    motionHandlerRef,   \* the registered devicemotion listener (its closure)
    lastBumpRef,        \* useRef lastBumpRef
    path,               \* useState path
    redSegments,        \* useState redSegments
    emitted,            \* socket.emit calls made, oldest first
    fixes,              \* history: coordinates delivered by the location source
    isCollecting,       \* jerk flow: useState isCollecting
    status,             \* jerk flow: useState status
    render,             \* jerk flow: number of the current render; it names
                        \* the onMotion/start/stop closures that render made
    pending,            \* jerk flow: renders whose start() awaits the permission
    listeners,          \* jerk flow: registered devicemotion listeners, each
                        \* an onMotion closure with its own prev
    recentAccel,        \* jerk flow: useRef recentAccel (az)
    hpState,            \* jerk flow: useRef hpState (az)
    lastBumpTs,         \* jerk flow: useRef lastBumpTs
    lastPosRef,         \* jerk flow: useRef lastPosRef
    watchIdRef,         \* jerk flow: useRef watchIdRef
    watches,            \* jerk flow: active geolocation watch ids
    heat,               \* jerk flow: dots added to the heat layer, oldest first
    cold,               \* history: no local firing since the last start
    sample,             \* history: <<linear>> when the last callback was the
                        \* simple/auto listener classifying a sample, else <<>>
    events,             \* history: callbacks dispatched so far
    serverBumps,        \* relay: const bumps, the retained records, oldest first
    livePositions,      \* relay: const livePositions, deviceId -> last 'pos' data
    sockets,            \* relay: the connected sockets
    outbox,             \* relay: what was sent to each connected socket, in
                        \* order, and that socket has not handled yet
    arrivals,           \* history: the messages that reached the relay, in order
    given,              \* function specs: the arguments of the last application
    got                 \* function specs: what the function has returned

vars == <<flow, clock, position, speedKmh, accel, bumps, detecting, connected,
          autoTune, manualSensitivity, manualCooldownMs, lastGeoRef,
          motionHandlerRef, lastBumpRef, path, redSegments, emitted, fixes, cold,
          events, isCollecting, status, render, pending, listeners, recentAccel,
          hpState, lastBumpTs, lastPosRef, watchIdRef, watches, heat, sample,
          serverBumps, livePositions, sockets, outbox, arrivals, given, got>>

\* The client's variables, the relay's, and those of the function specs.
clientVars ==
    <<flow, clock, position, speedKmh, accel, bumps, detecting, connected,
      autoTune, manualSensitivity, manualCooldownMs, lastGeoRef,
      motionHandlerRef, lastBumpRef, path, redSegments, emitted, fixes, cold,
      events, isCollecting, status, render, pending, listeners, recentAccel,
      hpState, lastBumpTs, lastPosRef, watchIdRef, watches, heat, sample>>
relayVars == <<serverBumps, livePositions, sockets, outbox, arrivals>>
pureVars == <<given, got>>

\* ---------------------------------------------------------- pure functions
\* Integer square root: the r in lo..hi with r * r <= n < (r + 1) * (r + 1),
\* found by bisection; 46340 is the largest root of a 32-bit integer.
RECURSIVE SqrtBetween(_, _, _)
SqrtBetween(n, lo, hi) ==
    IF lo >= hi THEN lo
    ELSE LET mid == (lo + hi + 1) \div 2
         IN  IF mid * mid <= n THEN SqrtBetween(n, mid, hi)
             ELSE SqrtBetween(n, lo, mid - 1)
ISqrt(n) == SqrtBetween(n, 0, Min(n, 46340))

\* Great-circle distance in cm between coordinates given in units of 1 m
\* of arc.  For the few units around the equator used here sin x = x and
\* cos x = 1 at this resolution, so the haversine is
\* R * sqrt(dLat^2 + dLon^2): one unit = 100 cm.
haversineMeters(lat1, lon1, lat2, lon2) ==
    (100 * ISqrt(10000 * ((lat2 - lat1) * (lat2 - lat1) + (lon2 - lon1) * (lon2 - lon1)))) \div 100

\* getAutoParams with <= in place of < at the bracket limits.
getAutoParamsInclusive(s) ==
    IF s <= 500 THEN [cooldown |-> 2500, sensitivity |-> 10000]
    ELSE IF s <= 2500 THEN [cooldown |-> 1800, sensitivity |-> 12000]
    ELSE IF s <= 6000 THEN [cooldown |-> 1200, sensitivity |-> 14000]
    ELSE [cooldown |-> 800, sensitivity |-> 16000]

\* Auto-tune thresholds by speed (0.01 km/h in, ms and 0.001 m/s^2 out).
getAutoParams(s) ==
    IF s < 500 THEN [cooldown |-> 2500, sensitivity |-> 10000]
    ELSE IF s < 2500 THEN [cooldown |-> 1800, sensitivity |-> 12000]
    ELSE IF s < 6000 THEN [cooldown |-> 1200, sensitivity |-> 14000]
    ELSE [cooldown |-> 800, sensitivity |-> 16000]

\* effectiveCooldown that ignores the auto-tune switch.
effectiveCooldownOfManual == manualCooldownMs

effectiveCooldown ==
    IF flow = "auto" /\ autoTune THEN getAutoParams(speedKmh).cooldown ELSE manualCooldownMs
effectiveSensitivity ==
    IF flow = "auto" /\ autoTune THEN getAutoParams(speedKmh).sensitivity ELSE manualSensitivity

\* Number.prototype.toFixed: round to 1 decimal (0.01 km/h -> 0.1 km/h) and
\* to 2 decimals (0.001 m/s^2 -> 0.01 m/s^2).
ToFixed1(s) == (s + 5) \div 10
ToFixed2(a) == (a + 5) \div 10

\* |sqrt(x^2 + y^2 + z^2) - 9.81| for a sample with x = y = 0.
Linear(z) == Abs(Abs(z) - 9810)

\* PathAppend without the dedup test.
PathAppendNoDedup(prev, next) ==
    LET updated == Append(prev, <<next.lat, next.lon>>)
    IN  IF Len(updated) > PathCap THEN Tail(updated) ELSE updated

\* PathAppend with pop() in place of shift(): the newest point is dropped.
PathAppendDropNewest(prev, next) ==
    IF prev = <<>> \/ Last(prev)[1] # next.lat \/ Last(prev)[2] # next.lon
    THEN LET updated == Append(prev, <<next.lat, next.lon>>)
         IN  IF Len(updated) > PathCap THEN SubSeq(updated, 1, Len(updated) - 1)
             ELSE updated
    ELSE prev

\* setPath updater: append unless identical to the last point, drop the head
\* when the cap is exceeded.
PathAppend(prev, next) ==
    IF prev = <<>> \/ Last(prev)[1] # next.lat \/ Last(prev)[2] # next.lon
    THEN LET updated == Append(prev, <<next.lat, next.lon>>)
         IN  IF Len(updated) > PathCap THEN Tail(updated) ELSE updated
    ELSE prev

\* Speed of a fix in 0.01 km/h before clamping, or NoSpeed: the native
\* speed when it is a number >= 0, else distance / elapsed time when the
\* previous fix is more than 0.5 s and less than 15 s old.
\* SpeedOf that derives whenever it can and falls back to the native speed.
SpeedOfDerivedFirst(last, fix, now) ==
    IF last # NoGeo /\ now - last[1].t > 500 /\ now - last[1].t < 15000
    THEN <<(haversineMeters(last[1].lat, last[1].lon, fix.lat, fix.lon) * 3600)
             \div (now - last[1].t)>>
    ELSE IF fix.speed # NoSpeed /\ fix.speed[1] >= 0 THEN <<fix.speed[1] * 360>>
    ELSE NoSpeed

\* SpeedOf with the limits of the window included.
SpeedOfInclusiveWindow(last, fix, now) ==
    IF fix.speed # NoSpeed /\ fix.speed[1] >= 0 THEN <<fix.speed[1] * 360>>
    ELSE IF last # NoGeo /\ now - last[1].t >= 500 /\ now - last[1].t <= 15000
    THEN <<(haversineMeters(last[1].lat, last[1].lon, fix.lat, fix.lon) * 3600)
             \div (now - last[1].t)>>
    ELSE NoSpeed

\* last is lastGeoRef.current.
SpeedOf(last, fix, now) ==
    IF fix.speed # NoSpeed /\ fix.speed[1] >= 0 THEN <<fix.speed[1] * 360>>
    ELSE IF last # NoGeo /\ now - last[1].t > 500 /\ now - last[1].t < 15000
    THEN <<(haversineMeters(last[1].lat, last[1].lon, fix.lat, fix.lon) * 3600)
             \div (now - last[1].t)>>
    ELSE NoSpeed

\* ClampKmh without Math.min.
ClampKmhNoCeiling(k) == Max(0, k)

\* Math.max(0, Math.min(180, kmh))
ClampKmh(k) == Max(0, Min(18000, k))

\* AfterFix that remembers a fix only when it carried no usable speed.
AfterFixGeoWhenDerived(st, fix, now) ==
    LET spd == SpeedOf(st.lastGeoRef, fix, now)
    IN  [position |-> [lat |-> fix.lat, lon |-> fix.lon],
         path |-> PathAppend(st.path, fix),
         speedKmh |-> IF spd # NoSpeed THEN ClampKmh(spd[1]) ELSE st.speedKmh,
         lastGeoRef |-> IF fix.speed # NoSpeed /\ fix.speed[1] >= 0 THEN st.lastGeoRef
                        ELSE <<[lat |-> fix.lat, lon |-> fix.lon, t |-> now]>>]

\* What one call of handlePos at time now makes of st, the record of
\* position, path, speedKmh and lastGeoRef.current.
AfterFix(st, fix, now) ==
    LET spd == SpeedOf(st.lastGeoRef, fix, now)
    IN  [position |-> [lat |-> fix.lat, lon |-> fix.lon],
         path |-> PathAppend(st.path, fix),
         speedKmh |-> IF spd # NoSpeed THEN ClampKmh(spd[1]) ELSE st.speedKmh,
         lastGeoRef |-> <<[lat |-> fix.lat, lon |-> fix.lon, t |-> now]>>]

\* Backtrack loop of addRedSegmentNear: i is the 1-based index of path[i].
RECURSIVE Backtrack(_, _, _, _)
Backtrack(p, i, seg, acc) ==
    IF i <= 1 THEN seg
    ELSE LET seg2 == <<p[i]>> \o seg
             acc2 == acc + haversineMeters(p[i][1], p[i][2], p[i - 1][1], p[i - 1][2])
         IN  IF acc2 >= 3000 THEN seg2 ELSE Backtrack(p, i - 1, seg2, acc2)

\* addRedSegmentNear without its two length tests.
addRedSegmentNearUnguarded(segs, center, p) ==
    Append(segs, Backtrack(p, Len(p), <<(<<center.lat, center.lon>>)>>, 0))

\* redSegments after addRedSegmentNear(center.lat, center.lon) run against
\* the path p of the render that created the handler.
addRedSegmentNear(segs, center, p) ==
    IF Len(p) < 2 THEN segs
    ELSE LET seg == Backtrack(p, Len(p), <<(<<center.lat, center.lon>>)>>, 0)
         IN  IF Len(seg) >= 2 THEN Append(segs, seg) ELSE segs

\* What a devicemotion listener created by the current render closes over.
Closure ==
    [position |-> position, speedKmh |-> speedKmh,
     effectiveSensitivity |-> effectiveSensitivity,
     effectiveCooldown |-> effectiveCooldown, path |-> path]

\* Qualifies without the cooldown test.
QualifiesIgnoringCooldown(h, linear, now) == linear > h.effectiveSensitivity

\* Qualifies with >= in the cooldown test.
QualifiesAtCooldown(h, linear, now) ==
    linear > h.effectiveSensitivity /\ now - lastBumpRef >= h.effectiveCooldown

\* Qualifies with >= in the threshold test.
QualifiesAtThreshold(h, linear, now) ==
    linear >= h.effectiveSensitivity /\ now - lastBumpRef > h.effectiveCooldown

\* The firing condition of the listener h for a sample of magnitude linear.
Qualifies(h, linear, now) ==
    linear > h.effectiveSensitivity /\ now - lastBumpRef > h.effectiveCooldown

\* The bump record the listener h builds.
MakeBump(h, linear, now) ==
    IF flow = "auto"
    THEN [id |-> now, time |-> now \div 1000, coords |-> h.position,
          accel |-> ToFixed2(linear), speedKmh |-> ToFixed1(h.speedKmh)]
    ELSE [id |-> now, time |-> now \div 1000, coords |-> h.position,
          accel |-> ToFixed2(linear)]

\* PrependBump adding the record at the tail.
PrependBumpAtTail(prev, b) == prev \o <<b>>

\* setBumps((prev) => [b, ...prev])
PrependBump(prev, b) == <<b>> \o prev

\* Emit that publishes only while the socket is connected.
EmitWhenConnected(out, event, data) ==
    IF connected THEN Append(out, [event |-> event, data |-> data]) ELSE out

\* socket.emit(event, data)
Emit(out, event, data) == Append(out, [event |-> event, data |-> data])

\* highThreshold without the floor and with the margin subtracted.
highThresholdMinusMargin(h) == h.effectiveSensitivity - 3000

\* Math.max(16, effectiveSensitivity + 3)
highThreshold(h) == Max(16000, h.effectiveSensitivity + 3000)

\* What DeviceMotionEvent.requestPermission does on this device: the function
\* is absent, or it resolves to "granted" or "denied", or it throws.
Permissions == {"absent", "granted", "denied", "throws"}

\* requestMotionPermission whose catch block returns true.
requestMotionPermissionCatchTrue(p) == p # "denied"

\* part_000 / App.js requestMotionPermission: the value it resolves to.
requestMotionPermission(p) ==
    IF p # "absent" THEN (IF p = "throws" THEN FALSE ELSE p = "granted")
    ELSE TRUE

\* jerk flow ensureMotionPermission: the value it resolves to.
ensureMotionPermission(p) ==
    IF p # "absent" THEN (IF p = "throws" THEN FALSE ELSE p = "granted")
    ELSE TRUE

\* The client after construction.
ClientInit ==
    /\ flow \in {"simple", "auto", "jerk"}
    /\ clock = StartClock
    /\ position = DefaultPosition
    /\ speedKmh = 0
    /\ accel = 0
    /\ bumps = <<>>
    /\ detecting = FALSE
    /\ connected = FALSE
    /\ autoTune = (flow = "auto")
    /\ manualSensitivity = 12000
    /\ manualCooldownMs = 2000
    /\ lastGeoRef = NoGeo
    /\ motionHandlerRef = NoHandler
    /\ lastBumpRef = 0
    /\ path = <<>>
    /\ redSegments = <<>>
    /\ emitted = <<>>
    /\ fixes = <<>>
    /\ cold = TRUE
    /\ events = 0
    /\ sample = <<>>
    /\ isCollecting = FALSE
    /\ status = "ready"
    /\ render = 1
    /\ pending = <<>>
    /\ listeners = <<>>
    /\ recentAccel = 0
    /\ hpState = 0
    /\ lastBumpTs = 0
    /\ lastPosRef = [lat |-> <<>>, lng |-> <<>>, speed |-> 0, ts |-> 0]
    /\ watchIdRef = <<>>
    /\ watches = {}
    /\ heat = <<>>

\* The sockets that may connect to the relay.
Sockets == 1..MaxSockets

\* The relay after the module has loaded: nothing retained, nobody connected.
RelayInit ==
    /\ serverBumps = <<>>
    /\ livePositions = {}
    /\ sockets = {}
    /\ outbox = [s \in Sockets |-> <<>>]
    /\ arrivals = <<>>

\* No function has been applied.
PureInit == given = <<>> /\ got = <<>>

Init == ClientInit /\ RelayInit /\ PureInit

simpleAutoVars ==
    <<position, speedKmh, accel, bumps, detecting, connected, autoTune,
      manualSensitivity, manualCooldownMs, lastGeoRef, motionHandlerRef,
      lastBumpRef, path, redSegments>>
jerkVars ==
    <<isCollecting, status, render, pending, listeners, recentAccel, hpState,
      lastBumpTs, lastPosRef, watchIdRef, watches, heat>>

\* Every action is one callback of the run; MaxEvents bounds the run.
Dispatch == events < MaxEvents /\ events' = events + 1

\* Time passes between callbacks.
Tick ==
    /\ Dispatch
    /\ UNCHANGED <<relayVars, pureVars>>
    /\ sample' = <<>>
    /\ \E d \in TickSteps : clock + d <= MaxClock /\ clock' = clock + d
    /\ UNCHANGED jerkVars
    /\ UNCHANGED <<flow, position, speedKmh, accel, bumps, detecting, connected,
                   autoTune, manualSensitivity, manualCooldownMs, lastGeoRef,
                   motionHandlerRef, lastBumpRef, path, redSegments, emitted,
                   fixes, cold>>

\* part_000 handlePos: a fix from getCurrentPosition / watchPosition.
handlePos ==
    /\ Dispatch
    /\ UNCHANGED <<relayVars, pureVars>>
    /\ sample' = <<>>
    /\ flow = "auto"
    /\ Len(fixes) < MaxFixes
    /\ \E c \in FixCoords, sp \in NativeSpeeds :
         LET fix == [lat |-> c.lat, lon |-> c.lon, speed |-> sp]
             r == AfterFix([position |-> position, path |-> path,
                            speedKmh |-> speedKmh, lastGeoRef |-> lastGeoRef],
                           fix, clock)
         IN  /\ position' = r.position
             /\ path' = r.path
             /\ speedKmh' = r.speedKmh
             /\ lastGeoRef' = r.lastGeoRef
             /\ fixes' = Append(fixes, c)
    /\ UNCHANGED jerkVars
    /\ UNCHANGED <<flow, clock, accel, bumps, detecting, connected, autoTune,
                   manualSensitivity, manualCooldownMs, motionHandlerRef,
                   lastBumpRef, redSegments, emitted, cold>>

\* App.js position callbacks: setPosition only.
simplePos ==
    /\ Dispatch
    /\ UNCHANGED <<relayVars, pureVars>>
    /\ sample' = <<>>
    /\ flow = "simple"
    /\ Len(fixes) < MaxFixes
    /\ \E c \in FixCoords : position' = c /\ fixes' = Append(fixes, c)
    /\ UNCHANGED jerkVars
    /\ UNCHANGED <<flow, clock, speedKmh, accel, bumps, detecting, connected,
                   autoTune, manualSensitivity, manualCooldownMs, lastGeoRef,
                   motionHandlerRef, lastBumpRef, path, redSegments, emitted, cold>>

\* The motion useEffect re-run after a render whose dependencies changed:
\* the previous listener is removed and the new render's one registered.
motionEffect ==
    /\ Dispatch
    /\ UNCHANGED <<relayVars, pureVars>>
    /\ sample' = <<>>
    /\ flow \in {"simple", "auto"}
    /\ detecting
    /\ motionHandlerRef # <<Closure>>
    /\ motionHandlerRef' = <<Closure>>
    /\ UNCHANGED jerkVars
    /\ UNCHANGED <<flow, clock, position, speedKmh, accel, bumps, detecting,
                   connected, autoTune, manualSensitivity, manualCooldownMs,
                   lastGeoRef, lastBumpRef, path, redSegments, emitted, fixes, cold>>

\* The devicemotion listener, called with one sample.
handler ==
    /\ Dispatch
    /\ UNCHANGED <<relayVars, pureVars>>
    /\ flow \in {"simple", "auto"}
    /\ motionHandlerRef # NoHandler
    /\ Len(bumps) < MaxBumps
    /\ \E z \in AccelSamples :
         LET h == motionHandlerRef[1]
             linear == Linear(z)
             now == clock
             bump == MakeBump(h, linear, now)
         IN  /\ accel' = linear
             /\ sample' = <<linear>>
             /\ IF Qualifies(h, linear, now)
                THEN /\ lastBumpRef' = now
                     /\ bumps' = PrependBump(bumps, bump)
                     /\ emitted' = Emit(emitted, "send-bump", bump)
                     /\ redSegments' =
                          IF flow = "auto" /\ linear >= highThreshold(h)
                          THEN addRedSegmentNear(redSegments, h.position, h.path)
                          ELSE redSegments
                     /\ cold' = FALSE
                ELSE UNCHANGED <<lastBumpRef, bumps, emitted, redSegments, cold>>
    /\ UNCHANGED jerkVars
    /\ UNCHANGED <<flow, clock, position, speedKmh, detecting, connected, autoTune,
                   manualSensitivity, manualCooldownMs, lastGeoRef,
                   motionHandlerRef, path, fixes>>

\* startDetection from the point where requestMotionPermission has resolved
\* to ok; before that point it changes nothing.
startDetectionOn(ok) ==
    /\ Dispatch
    /\ UNCHANGED relayVars
    /\ sample' = <<>>
    /\ flow \in {"simple", "auto"}
    /\ ~detecting
    /\ detecting' = ok
    /\ cold' = (ok \/ cold)
    /\ UNCHANGED jerkVars
    /\ UNCHANGED <<flow, clock, position, speedKmh, accel, bumps, connected,
                   autoTune, manualSensitivity, manualCooldownMs, lastGeoRef,
                   motionHandlerRef, lastBumpRef, path, redSegments, emitted, fixes>>

startDetection ==
    /\ \E p \in Permissions : startDetectionOn(requestMotionPermission(p))
    /\ UNCHANGED pureVars

\* stopDetection: setDetecting(false) and the effect's removal of the listener.
stopDetection ==
    /\ Dispatch
    /\ UNCHANGED <<relayVars, pureVars>>
    /\ sample' = <<>>
    /\ flow \in {"simple", "auto"}
    /\ detecting
    /\ detecting' = FALSE
    /\ motionHandlerRef' = NoHandler
    /\ UNCHANGED jerkVars
    /\ UNCHANGED <<flow, clock, position, speedKmh, accel, bumps, connected,
                   autoTune, manualSensitivity, manualCooldownMs, lastGeoRef,
                   lastBumpRef, path, redSegments, emitted, fixes, cold>>

\* The three controls; a running detector gets the new render's listener.
setAutoTune ==
    /\ Dispatch
    /\ UNCHANGED <<relayVars, pureVars>>
    /\ sample' = <<>>
    /\ flow = "auto"
    /\ autoTune' = ~autoTune
    /\ UNCHANGED jerkVars
    /\ UNCHANGED <<flow, clock, position, speedKmh, accel, bumps, detecting,
                   connected, manualSensitivity, manualCooldownMs, lastGeoRef,
                   lastBumpRef, path, redSegments, emitted, fixes, cold>>
    /\ motionHandlerRef' = IF detecting THEN <<Closure'>> ELSE NoHandler

setManualSensitivity ==
    /\ Dispatch
    /\ UNCHANGED <<relayVars, pureVars>>
    /\ sample' = <<>>
    /\ flow \in {"simple", "auto"}
    /\ \E v \in SensitivityChoices \ {manualSensitivity} : manualSensitivity' = v
    /\ UNCHANGED jerkVars
    /\ UNCHANGED <<flow, clock, position, speedKmh, accel, bumps, detecting,
                   connected, autoTune, manualCooldownMs, lastGeoRef,
                   lastBumpRef, path, redSegments, emitted, fixes, cold>>
    /\ motionHandlerRef' = IF detecting THEN <<Closure'>> ELSE NoHandler

setManualCooldownMs ==
    /\ Dispatch
    /\ UNCHANGED <<relayVars, pureVars>>
    /\ sample' = <<>>
    /\ flow \in {"simple", "auto"}
    /\ \E v \in CooldownChoices \ {manualCooldownMs} : manualCooldownMs' = v
    /\ UNCHANGED jerkVars
    /\ UNCHANGED <<flow, clock, position, speedKmh, accel, bumps, detecting,
                   connected, autoTune, manualSensitivity, lastGeoRef,
                   lastBumpRef, path, redSegments, emitted, fixes, cold>>
    /\ motionHandlerRef' = IF detecting THEN <<Closure'>> ELSE NoHandler

\* Socket listeners.
onConnect ==
    /\ Dispatch
    /\ UNCHANGED <<relayVars, pureVars>>
    /\ sample' = <<>>
    /\ flow \in {"simple", "auto"}
    /\ ~connected
    /\ connected' = TRUE
    /\ UNCHANGED jerkVars
    /\ UNCHANGED <<flow, clock, position, speedKmh, accel, bumps, detecting,
                   autoTune, manualSensitivity, manualCooldownMs, lastGeoRef,
                   motionHandlerRef, lastBumpRef, path, redSegments, emitted,
                   fixes, cold>>

onDisconnect ==
    /\ Dispatch
    /\ UNCHANGED <<relayVars, pureVars>>
    /\ sample' = <<>>
    /\ flow \in {"simple", "auto"}
    /\ connected
    /\ connected' = FALSE
    /\ UNCHANGED jerkVars
    /\ UNCHANGED <<flow, clock, position, speedKmh, accel, bumps, detecting,
                   autoTune, manualSensitivity, manualCooldownMs, lastGeoRef,
                   motionHandlerRef, lastBumpRef, path, redSegments, emitted,
                   fixes, cold>>

onNewBump ==
    /\ Dispatch
    /\ UNCHANGED <<relayVars, pureVars>>
    /\ sample' = <<>>
    /\ flow \in {"simple", "auto"}
    /\ connected
    /\ Len(bumps) < MaxBumps
    /\ \E b \in RemoteBumps : bumps' = PrependBump(bumps, b)
    /\ UNCHANGED jerkVars
    /\ UNCHANGED <<flow, clock, position, speedKmh, accel, detecting, connected,
                   autoTune, manualSensitivity, manualCooldownMs, lastGeoRef,
                   motionHandlerRef, lastBumpRef, path, redSegments, emitted,
                   fixes, cold>>

\* ------------------------------------------------------------- jerk flow
\* performance.now(): ms since the time origin.
PerfNow == clock - TimeOrigin

\* deviceIdRef.current: the id this device publishes under, which is also
\* the number of its socket at the relay.
Me == 1

cfg == [hpAlpha |-> <<4, 5>>, jerkThresh |-> 3000, minGapMs |-> 1500, minSpeedMps |-> 2]

\* JerkQualifies without the two tests made on the last fix.
JerkQualifiesWithoutFix(last, now, lastTs, jerkMag) ==
    /\ ~(now - lastTs < cfg.minGapMs)
    /\ jerkMag > cfg.jerkThresh

\* JerkQualifies without the minimum speed test.
JerkQualifiesAnySpeed(last, now, lastTs, jerkMag) ==
    /\ last.lat # <<>>
    /\ ~(now - lastTs < cfg.minGapMs)
    /\ jerkMag > cfg.jerkThresh

\* The gates of onMotion after the jerk has been computed: a fix is known,
\* speed >= minSpeedMps, minGapMs elapsed, jerk above jerkThresh.
JerkQualifies(last, now, lastTs, jerkMag) ==
    /\ last.lat # <<>>
    /\ ~(last.speed < cfg.minSpeedMps)
    /\ ~(now - lastTs < cfg.minGapMs)
    /\ jerkMag > cfg.jerkThresh

\* Math.min(5, (jerkMag - jerkThresh) * 0.8 + 1), in 0.001.
Score(jerkMag) == Min(5000, ((jerkMag - cfg.jerkThresh) * 4) \div 5 + 1000)

\* One call of an onMotion closure whose own variable prev is given.  st
\* holds what the closures share through refs, the heat layer and the
\* socket: [hp, recent, lastTs, heat, out].
onMotion(st, prev, az, t, now) ==
    LET hp == (cfg.hpAlpha[1] * (st.hp + az - st.recent)) \div cfg.hpAlpha[2]
        dt == t - prev.t
        jerkMag == IF dt > 0 THEN (Abs(hp - prev.a) * 1000) \div dt ELSE 0
        last == lastPosRef
        bump == [deviceId |-> Me, lat |-> last.lat, lng |-> last.lng,
                 score |-> Score(jerkMag), ts |-> now]
        st1 == [st EXCEPT !.hp = hp, !.recent = az]
    IN  [prev |-> [a |-> hp, t |-> t],
         st |-> IF JerkQualifies(last, now, st.lastTs, jerkMag)
                THEN [st1 EXCEPT !.lastTs = now,
                                 !.heat = Append(st.heat, bump),
                                 !.out = Emit(st.out, "bump", bump)]
                ELSE st1]

\* A devicemotion event is handed to every registered listener in turn.
RECURSIVE DispatchMotion(_, _, _, _, _, _)
DispatchMotion(ls, i, st, az, t, now) ==
    IF i > Len(ls) THEN [ls |-> ls, st |-> st]
    ELSE LET r == onMotion(st, ls[i].prev, az, t, now)
         IN  DispatchMotion([ls EXCEPT ![i].prev = r.prev], i + 1, r.st, az, t, now)

\* window.addEventListener("devicemotion", onMotion of render id): a
\* function already registered is not added again.
startSensors(ls, id) ==
    IF \E i \in 1..Len(ls) : ls[i].id = id THEN ls
    ELSE Append(ls, [id |-> id, prev |-> [a |-> 0, t |-> 0]])

\* window.removeEventListener("devicemotion", onMotion of render id)
stopSensors(ls, id) == SelectSeq(ls, LAMBDA l : l.id # id)

\* navigator.geolocation.clearWatch(watchIdRef.current) unless it is null.
stopGPS(ws) == IF watchIdRef # <<>> THEN ws \ {watchIdRef[1]} ELSE ws

\* The id watchPosition returns is fresh: the ordinal of the callback that
\* makes the call.
NewWatchId == events + 1

\* start() up to its await: the Start button of the current render.
start ==
    /\ Dispatch
    /\ UNCHANGED <<relayVars, pureVars>>
    /\ sample' = <<>>
    /\ flow = "jerk"
    /\ ~isCollecting
    /\ Len(pending) < MaxPending
    /\ status' = "requesting"
    /\ render' = IF status # "requesting" THEN render + 1 ELSE render
    /\ pending' = Append(pending, render)
    /\ UNCHANGED simpleAutoVars
    /\ UNCHANGED <<flow, clock, emitted, fixes, cold, isCollecting, listeners,
                   recentAccel, hpState, lastBumpTs, lastPosRef, watchIdRef,
                   watches, heat>>

\* start() after ensureMotionPermission() has resolved to ok.
startResumeOn(ok) ==
    /\ Dispatch
    /\ UNCHANGED relayVars
    /\ sample' = <<>>
    /\ flow = "jerk"
    /\ pending # <<>>
    /\ pending' = Tail(pending)
    /\ IF ok
       THEN /\ listeners' = startSensors(listeners, Head(pending))
            /\ watchIdRef' = <<NewWatchId>>
            /\ watches' = watches \cup {NewWatchId}
            /\ isCollecting' = TRUE
            /\ status' = "collecting"
            /\ render' = IF ~isCollecting \/ status # "collecting"
                         THEN render + 1 ELSE render
            /\ cold' = TRUE
       ELSE /\ status' = "ready"
            /\ render' = IF status # "ready" THEN render + 1 ELSE render
            /\ UNCHANGED <<listeners, watchIdRef, watches, isCollecting, cold>>
    /\ UNCHANGED simpleAutoVars
    /\ UNCHANGED <<flow, clock, emitted, fixes, recentAccel, hpState, lastBumpTs,
                   lastPosRef, heat>>

startResume ==
    /\ \E p \in Permissions : startResumeOn(ensureMotionPermission(p))
    /\ UNCHANGED pureVars

\* stop(): the Stop button of the current render.
stop ==
    /\ Dispatch
    /\ UNCHANGED <<relayVars, pureVars>>
    /\ sample' = <<>>
    /\ flow = "jerk"
    /\ isCollecting
    /\ listeners' = stopSensors(listeners, render)
    /\ watches' = stopGPS(watches)
    /\ isCollecting' = FALSE
    /\ status' = "ready"
    /\ render' = render + 1
    /\ UNCHANGED simpleAutoVars
    /\ UNCHANGED <<flow, clock, emitted, fixes, cold, pending, recentAccel,
                   hpState, lastBumpTs, lastPosRef, watchIdRef, heat>>

\* The watchPosition success callback registered by startGPS.
watchPosition ==
    /\ Dispatch
    /\ UNCHANGED <<relayVars, pureVars>>
    /\ sample' = <<>>
    /\ flow = "jerk"
    /\ watches # {}
    /\ Len(fixes) < MaxFixes
    /\ \E c \in FixCoords, sp \in JerkSpeeds :
         LET speed == IF sp = NoSpeed THEN 0 ELSE sp[1]
         IN  /\ emitted' = Emit(emitted, "pos",
                                [deviceId |-> Me, lat |-> c.lat, lng |-> c.lon,
                                 speed |-> speed, ts |-> clock])
             /\ lastPosRef' = [lat |-> <<c.lat>>, lng |-> <<c.lon>>,
                               speed |-> speed, ts |-> clock]
             /\ fixes' = Append(fixes, c)
    /\ UNCHANGED simpleAutoVars
    /\ UNCHANGED <<flow, clock, cold, isCollecting, status, render, pending,
                   listeners, recentAccel, hpState, lastBumpTs, watchIdRef,
                   watches, heat>>

\* One devicemotion event in the jerk flow.
motionEvent ==
    /\ Dispatch
    /\ UNCHANGED <<relayVars, pureVars>>
    /\ sample' = <<>>
    /\ flow = "jerk"
    /\ listeners # <<>>
    /\ Len(heat) < MaxBumps
    /\ \E az \in AccelSamples :
         LET r == DispatchMotion(listeners, 1,
                                 [hp |-> hpState, recent |-> recentAccel,
                                  lastTs |-> lastBumpTs, heat |-> heat,
                                  out |-> emitted],
                                 az, PerfNow, clock)
         IN  /\ listeners' = r.ls
             /\ hpState' = r.st.hp
             /\ recentAccel' = r.st.recent
             /\ lastBumpTs' = r.st.lastTs
             /\ heat' = r.st.heat
             /\ emitted' = r.st.out
             /\ cold' = (cold /\ r.st.heat = heat)
    /\ UNCHANGED simpleAutoVars
    /\ UNCHANGED <<flow, clock, fixes, isCollecting, status, render, pending,
                   lastPosRef, watchIdRef, watches>>

Next ==
    \/ Tick
    \/ handlePos
    \/ simplePos
    \/ motionEffect
    \/ handler
    \/ startDetection
    \/ stopDetection
    \/ setAutoTune
    \/ setManualSensitivity
    \/ setManualCooldownMs
    \/ onConnect
    \/ onDisconnect
    \/ onNewBump
    \/ start
    \/ startResume
    \/ stop
    \/ watchPosition
    \/ motionEvent

Spec == Init /\ [][Next]_vars

\* ------------------------------------------- addRedSegmentNear on its own
\* Points on the equator: 10 m from one to the next, and two that are 1 m
\* and 2 m from the first, as a source reports them from a device at rest.
SegPoints == {<<0, 10 * k>> : k \in 0..MaxSegCoord} \cup {<<0, 1>>, <<0, 2>>}

\* The Paths of up to MaxSegLen points: no point equals its predecessor.
SegPaths ==
    {p \in UNION {[1..n -> SegPoints] : n \in 0..MaxSegLen} :
        \A i \in 1..(Len(p) - 1) : p[i] # p[i + 1]}

\* The position of the render that holds the Path p: the last fix, which is
\* the newest Path point, or the default before any fix.
PositionOf(p) ==
    IF p = <<>> THEN DefaultPosition ELSE [lat |-> Last(p)[1], lon |-> Last(p)[2]]

\* redSegments before the call: empty, or holding an earlier segment.
SegsBefore == {<<>>, <<(<<(<<0, 0>>), (<<0, 0>>)>>)>>}

SegInit ==
    /\ ClientInit
    /\ flow = "auto"
    /\ RelayInit
    /\ given \in {[segs |-> g, center |-> PositionOf(p), path |-> p] :
                     g \in SegsBefore, p \in SegPaths}
    /\ got = <<>>

\* The handler's call addRedSegmentNear(position.lat, position.lon).
callAddRedSegmentNear ==
    /\ got = <<>>
    /\ got' = <<addRedSegmentNear(given.segs, given.center, given.path)>>
    /\ UNCHANGED <<given, clientVars, relayVars>>

SegNext == callAddRedSegmentNear

SegSpec == SegInit /\ [][SegNext]_vars

\* ------------------------------------------ starting and stopping on its own
\* The Start and Stop buttons of the three flows with the permission prompt's
\* outcomes recorded: given lists what each resolved request met.
StartInit == ClientInit /\ RelayInit /\ PureInit

resolveStartDetection ==
    \E p \in Permissions :
      /\ startDetectionOn(requestMotionPermission(p))
      /\ given' = Append(given, p)
      /\ UNCHANGED got

resolveStart ==
    \E p \in Permissions :
      /\ startResumeOn(ensureMotionPermission(p))
      /\ given' = Append(given, p)
      /\ UNCHANGED got

StartNext ==
    \/ resolveStartDetection
    \/ motionEffect
    \/ stopDetection
    \/ start
    \/ resolveStart
    \/ stop

StartSpec == StartInit /\ [][StartNext]_vars

\* ------------------------------------------------------------------ claims
\* The bump publications among the socket.emit calls.
BumpMsgs(out) == SelectSeq(out, LAMBDA m : m.event \in {"send-bump", "bump"})
\* The time a published bump record carries.
FireTime(b) == IF flow = "jerk" THEN b.ts ELSE b.id
\* The coordinates a published bump record carries.
TagCoords(b) ==
    IF flow = "jerk" THEN [lat |-> b.lat[1], lon |-> b.lng[1]] ELSE b.coords
\* The cooldown the classifying listener uses.
CooldownInEffect ==
    IF flow = "jerk" THEN cfg.minGapMs ELSE motionHandlerRef[1].effectiveCooldown
\* The threshold the classifying listener uses (simple and auto flows).
ThresholdInEffect == motionHandlerRef[1].effectiveSensitivity
\* This step publishes a locally detected bump.
LocalFire == Len(BumpMsgs(emitted')) > Len(BumpMsgs(emitted))
\* This step is the simple/auto listener classifying a sample.
SampleStep == flow \in {"simple", "auto"} /\ sample' # <<>>
\* A sequence with runs of equal consecutive elements collapsed to one.
RECURSIVE Collapse(_)
Collapse(q) ==
    IF Len(q) <= 1 THEN q
    ELSE LET c == Collapse(SubSeq(q, 1, Len(q) - 1))
         IN  IF Last(q) = Last(c) THEN c ELSE Append(c, Last(q))
\* The last n elements of q.
LastN(q, n) == SubSeq(q, Len(q) - n + 1, Len(q))
\* The coordinate pairs of the delivered fixes, in arrival order.
FixPairs == [i \in 1..Len(fixes) |-> <<fixes[i].lat, fixes[i].lon>>]

\* What C1 requires of one step.
C1_NoFiringWhileCooling_Step ==
    LocalFire /\ BumpMsgs(emitted) # <<>> =>
      FireTime(Last(BumpMsgs(emitted')).data)
        - FireTime(Last(BumpMsgs(emitted)).data) >= CooldownInEffect

\* C1: in every flow, two consecutive local firings are at least the
\* cooldown used to classify the second one apart, whatever was sampled in
\* between.
C1_NoFiringWhileCooling == [][C1_NoFiringWhileCooling_Step]_vars

\* C1 witness: a second local firing has happened.
C1_TwoFirings == Len(BumpMsgs(emitted)) >= 2

\* What C2 requires of one step.
C2_TagIsLatestFix_Step ==
    LocalFire /\ fixes # <<>> =>
      /\ TagCoords(Last(BumpMsgs(emitted')).data) = Last(fixes)
      /\ flow = "auto" =>
           Last(BumpMsgs(emitted')).data.speedKmh = ToFixed1(speedKmh)

\* C2: a locally produced bump carries the coordinates of the most recent
\* fix delivered before its sample, and (auto flow) the current speed.
C2_TagIsLatestFix == [][C2_TagIsLatestFix_Step]_vars

\* What C3 requires of one step.
C3_NoBumpWhileStopped_Step ==
    (IF flow = "jerk" THEN ~isCollecting ELSE ~detecting) =>
      /\ ~LocalFire
      /\ heat' = heat
      /\ bumps' # bumps => Head(bumps') \in RemoteBumps

\* C3: while detection is stopped no motion sample publishes a bump or adds
\* a local one to the display.
C3_NoBumpWhileStopped == [][C3_NoBumpWhileStopped_Step]_vars

\* What C4 requires of one step.
C4_ColdStartFires_Step ==
    SampleStep /\ cold /\ sample'[1] > ThresholdInEffect => LocalFire

\* C4: after a start, the first sample above the threshold fires, however
\* recently the detector fired before the stop.
C4_ColdStartFires == [][C4_ColdStartFires_Step]_vars

\* What C5 requires of one step.
C5_FiresAtCooldown_Step ==
    SampleStep /\ sample'[1] > ThresholdInEffect
      /\ clock - lastBumpRef >= CooldownInEffect => LocalFire

\* C5 as stated: a sample above the threshold fires as soon as the time
\* since the previous firing is at least the cooldown.
C5_FiresAtCooldown == [][C5_FiresAtCooldown_Step]_vars

\* What C5 requires of one step.
C5_FiresAfterCooldown_Step ==
    SampleStep /\ sample'[1] > ThresholdInEffect =>
      (LocalFire <=> clock - lastBumpRef > CooldownInEffect)

\* C5 amended: a sample above the threshold fires exactly when the time
\* since the previous firing is strictly more than the cooldown.
C5_FiresAfterCooldown == [][C5_FiresAfterCooldown_Step]_vars

\* C5 witness: a sample above the threshold arrived exactly the cooldown
\* after the previous firing and did not fire.
C5_SampleAtCooldown ==
    /\ flow \in {"simple", "auto"}
    /\ sample # <<>>
    /\ motionHandlerRef # NoHandler
    /\ sample[1] > ThresholdInEffect
    /\ lastBumpRef # 0
    /\ clock - lastBumpRef = CooldownInEffect

\* What C6 requires of one step.
C6_FiresIffAboveThreshold_Step ==
    SampleStep =>
      /\ sample'[1] <= ThresholdInEffect => ~LocalFire
      /\ (sample'[1] > ThresholdInEffect
            /\ clock - lastBumpRef > CooldownInEffect) => LocalFire

\* C6: a sample at or below the threshold never fires, and a sample above
\* it fires whenever the cooldown has elapsed.
C6_FiresIffAboveThreshold == [][C6_FiresIffAboveThreshold_Step]_vars

\* C6 witness: a sample exactly at the threshold was classified by an Armed
\* detector and did not fire.
C6_SampleAtThreshold ==
    /\ flow \in {"simple", "auto"}
    /\ sample # <<>>
    /\ motionHandlerRef # NoHandler
    /\ sample[1] = ThresholdInEffect
    /\ clock - lastBumpRef > CooldownInEffect
    /\ BumpMsgs(emitted) = <<>>

\* C7: the Path never exceeds its cap and never holds two equal adjacent
\* points.
C7_PathCappedNoAdjacentDup ==
    /\ Len(path) <= PathCap
    /\ \A i \in 1..(Len(path) - 1) : path[i] # path[i + 1]

\* C7 witness: the Path is full and a fix equal to its predecessor was
\* delivered.
C7_FullPathAfterRepeat ==
    /\ Len(path) = PathCap
    /\ \E i \in 1..(Len(fixes) - 1) : fixes[i] = fixes[i + 1]

\* C8: the Path is the most recent min(n, cap) points, in arrival order, of
\* the fix coordinates with runs of equal pairs collapsed.
C8_PathIsRecentSuffix ==
    flow = "auto" =>
        path = LastN(Collapse(FixPairs), Min(Len(Collapse(FixPairs)), PathCap))

\* C8 witness: more distinct-run points were delivered than the Path holds.
C8_HeadEvicted == flow = "auto" /\ Len(Collapse(FixPairs)) > PathCap

\* What C9 requires of one step.
C9_OneBumpOnePublish_Step ==
    flow \in {"simple", "auto"} =>
      IF sample' # <<>> /\ Qualifies(motionHandlerRef[1], sample'[1], clock)
      THEN /\ bumps' = <<Head(bumps')>> \o bumps
           /\ Head(bumps').id = clock
           /\ emitted' = Append(emitted, [event |-> "send-bump", data |-> Head(bumps')])
      ELSE /\ emitted' = emitted
           /\ sample' # <<>> => bumps' = bumps

\* C9: a qualifying sample puts exactly one new record at the head of the
\* display list and emits that record exactly once, connected or not; no
\* other step emits anything.
C9_OneBumpOnePublish == [][C9_OneBumpOnePublish_Step]_vars

\* C9 witness: a detection has just fired while the socket is disconnected.
C9_FiredOffline ==
    /\ flow \in {"simple", "auto"}
    /\ ~connected
    /\ sample # <<>>
    /\ lastBumpRef = clock
    /\ bumps # <<>>

\* What C10 requires of one step.
C10_RemoteBumpFrame_Step ==
    flow \in {"simple", "auto"} /\ sample' = <<>> /\ bumps' # bumps =>
      /\ \E b \in RemoteBumps : bumps' = <<b>> \o bumps
      /\ UNCHANGED <<lastBumpRef, motionHandlerRef, detecting, path, redSegments,
                     position, lastGeoRef, speedKmh, autoTune, manualSensitivity,
                     manualCooldownMs, accel, emitted>>

\* C10: a remote bump is put unchanged at the head of the display list and
\* nothing else changes.
C10_RemoteBumpFrame == [][C10_RemoteBumpFrame_Step]_vars

\* C10 witness: a remote bump was received by a running detector that is
\* cooling down after a local firing.
C10_RemoteWhileCooling ==
    /\ flow \in {"simple", "auto"}
    /\ Len(bumps) >= 2
    /\ Head(bumps) \in RemoteBumps
    /\ motionHandlerRef # NoHandler
    /\ lastBumpRef = clock

\* ------------------------------------------------------------ relay server
\* The payloads socket s publishes: one device per socket.
PosOf(s) == [deviceId |-> s, lat |-> 0, lng |-> s, speed |-> 0, ts |-> 0]
BumpOf(s) == [deviceId |-> s, lat |-> 0, lng |-> s, score |-> 1000, ts |-> 0]

\* StoreBump with splice(StoreCap): the records beyond the cap are cut off
\* at the tail.
StoreBumpKeepOldest(store, b) ==
    LET pushed == Append(store, b)
    IN  IF Len(pushed) > StoreCap THEN SubSeq(pushed, 1, StoreCap) ELSE pushed

\* bumps.push(b); if (bumps.length > cap) bumps.splice(0, bumps.length - cap)
StoreBump(store, b) ==
    LET pushed == Append(store, b)
    IN  IF Len(pushed) > StoreCap
        THEN SubSeq(pushed, Len(pushed) - StoreCap + 1, Len(pushed))
        ELSE pushed

\* HeatInit with slice(0, InitCap): the oldest records.
HeatInitOldest(store) == SubSeq(store, 1, Min(Len(store), InitCap))

\* bumps.slice(-InitCap)
HeatInit(store) == SubSeq(store, Max(1, Len(store) - InitCap + 1), Len(store))

\* outbox after event/data has been sent to the sockets in to.
Send(box, to, event, data) ==
    [t \in Sockets |->
       IF t \in to THEN Append(box[t], [event |-> event, data |-> data]) ELSE box[t]]

\* Broadcast with socket.emit in place of socket.broadcast.emit.
BroadcastToSelf(s) == {s}

\* socket.broadcast: every connected socket but s.
Broadcast(s) == sockets \ {s}

\* io.on("connection"): the new socket is sent the recent records.
onConnection ==
    /\ \E s \in Sockets \ sockets :
         /\ sockets' = sockets \cup {s}
         /\ outbox' = Send([outbox EXCEPT ![s] = <<>>], {s}, "heat:init",
                           HeatInit(serverBumps))
    /\ UNCHANGED <<serverBumps, livePositions, arrivals, clientVars, pureVars>>

\* socket.on("pos") of socket s: remember data and broadcast it to the
\* other sockets.
onPosFrom(s, data) ==
    /\ livePositions' =
         {e \in livePositions : e.deviceId # data.deviceId} \cup {data}
    /\ outbox' = Send(outbox, Broadcast(s), "pos", data)
    /\ arrivals' = Append(arrivals, [event |-> "pos", data |-> data])
    /\ UNCHANGED <<serverBumps, sockets>>

onPos ==
    /\ Len(arrivals) < MaxArrivals
    /\ \E s \in sockets : onPosFrom(s, PosOf(s))
    /\ UNCHANGED <<clientVars, pureVars>>

\* socket.on("bump") of socket s: retain b and emit it to every socket.
onBumpFrom(s, b) ==
    /\ serverBumps' = StoreBump(serverBumps, b)
    /\ outbox' = Send(outbox, sockets, "bump", b)
    /\ arrivals' = Append(arrivals, [event |-> "bump", data |-> b])
    /\ UNCHANGED <<livePositions, sockets>>

onBump ==
    /\ Len(arrivals) < MaxArrivals
    /\ \E s \in sockets : onBumpFrom(s, BumpOf(s))
    /\ UNCHANGED <<clientVars, pureVars>>

\* socket.on("disconnect"): the handler is empty; the socket is gone.
onSocketDisconnect ==
    /\ \E s \in sockets :
         /\ sockets' = sockets \ {s}
         /\ outbox' = [outbox EXCEPT ![s] = <<>>]
    /\ UNCHANGED <<serverBumps, livePositions, arrivals, clientVars, pureVars>>

RelaySpecInit == ClientInit /\ flow = "jerk" /\ RelayInit /\ PureInit

RelayNext == onConnection \/ onPos \/ onBump \/ onSocketDisconnect

RelaySpec == RelaySpecInit /\ [][RelayNext]_vars

\* ------------------------------------------- jerk client and relay together
\* The device of the jerk flow is socket Me of the relay; the other sockets
\* only listen.  What the device emits reaches the relay in order once it
\* is connected, and what the relay sends it is handled in order by the
\* listeners of backend/index.js:92-94.

\* The payload data was published by another device.
FromPeer(data) == "deviceId" \in DOMAIN data /\ data.deviceId # Me

\* The messages of q that the device has published.
FromMe(q) == SelectSeq(q, LAMBDA m : ~FromPeer(m.data))

\* A message of a kind the connection handler has registered no listener
\* for reaches the relay and changes nothing there.
noListener(m) ==
    /\ arrivals' = Append(arrivals, m)
    /\ UNCHANGED <<serverBumps, livePositions, sockets, outbox>>

\* The relay is handed the next message the device has emitted.
relayHandle ==
    /\ Me \in sockets
    /\ Len(arrivals) < MaxArrivals
    /\ Len(FromMe(arrivals)) < Len(emitted)
    /\ LET m == emitted[Len(FromMe(arrivals)) + 1]
       IN  IF m.event = "bump" THEN onBumpFrom(Me, m.data)
           ELSE IF m.event = "pos" THEN onPosFrom(Me, m.data)
           ELSE noListener(m)
    /\ UNCHANGED <<clientVars, pureVars>>

\* The dots the listener of a message of kind event adds for data:
\* addHeatDot for 'bump', pts.forEach(addHeatDot) for 'heat:init', and
\* none for 'pos' (drawRemote is empty).
DotsOf(event, data) ==
    IF event = "bump" THEN <<data>>
    ELSE IF event = "heat:init" THEN data
    ELSE <<>>

\* The device's socket hands the next message from the relay to its listener.
socketOn ==
    /\ Dispatch
    /\ sample' = <<>>
    /\ flow = "jerk"
    /\ Me \in sockets
    /\ outbox[Me] # <<>>
    /\ heat' = heat \o DotsOf(Head(outbox[Me]).event, Head(outbox[Me]).data)
    /\ outbox' = [outbox EXCEPT ![Me] = Tail(@)]
    /\ UNCHANGED simpleAutoVars
    /\ UNCHANGED <<flow, clock, emitted, fixes, cold, isCollecting, status, render,
                   pending, listeners, recentAccel, hpState, lastBumpTs,
                   lastPosRef, watchIdRef, watches>>
    /\ UNCHANGED <<serverBumps, livePositions, sockets, arrivals, pureVars>>

EchoInit == ClientInit /\ flow = "jerk" /\ RelayInit /\ PureInit

EchoNext ==
    \/ start
    \/ startResume
    \/ watchPosition
    \/ motionEvent
    \/ onConnection
    \/ onSocketDisconnect
    \/ relayHandle
    \/ socketOn

EchoSpec == EchoInit /\ [][EchoNext]_vars

\* ---------------------------------- simple / auto client and relay together
\* The device runs the simple or the auto flow as socket Me of the relay;
\* the other sockets are devices of the jerk flow, which publish 'bump'.

\* Another device publishes a bump.
peerBump ==
    /\ Len(arrivals) < MaxArrivals
    /\ \E s \in sockets \ {Me} : onBumpFrom(s, BumpOf(s))
    /\ UNCHANGED <<clientVars, pureVars>>

\* The socket of the simple / auto client hands the next message from the
\* relay to its listener: onNewBump for 'new-bump', the only kind of data
\* message it listens for.
socketOnNewBump ==
    /\ Dispatch
    /\ sample' = <<>>
    /\ flow \in {"simple", "auto"}
    /\ Me \in sockets
    /\ outbox[Me] # <<>>
    /\ bumps' = IF Head(outbox[Me]).event = "new-bump"
                THEN PrependBump(bumps, Head(outbox[Me]).data)
                ELSE bumps
    /\ outbox' = [outbox EXCEPT ![Me] = Tail(@)]
    /\ UNCHANGED jerkVars
    /\ UNCHANGED <<flow, clock, position, speedKmh, accel, detecting, connected,
                   autoTune, manualSensitivity, manualCooldownMs, lastGeoRef,
                   motionHandlerRef, lastBumpRef, path, redSegments, emitted,
                   fixes, cold>>
    /\ UNCHANGED <<serverBumps, livePositions, sockets, arrivals, pureVars>>

WireInit == ClientInit /\ flow \in {"simple", "auto"} /\ RelayInit /\ PureInit

WireNext ==
    \/ startDetection
    \/ motionEffect
    \/ handler
    \/ socketOnNewBump
    \/ onConnection
    \/ onSocketDisconnect
    \/ peerBump
    \/ relayHandle

WireSpec == WireInit /\ [][WireNext]_vars

\* ----------------------------------------------- getAutoParams on its own
\* Values of speedKmh, 0.01 km/h: the state is clamped to [0, 180] km/h.
TuneSpeeds ==
    {50 * k : k \in 0..MaxSpeedStep}
      \cup {400, 499, 501, 2490, 2499, 2501, 5999, 6001, 18000}

TuneInit ==
    /\ ClientInit
    /\ flow = "auto"
    /\ RelayInit
    /\ given \in TuneSpeeds
    /\ got = <<>>

\* The render's call getAutoParams(speedKmh).
callGetAutoParams ==
    /\ got = <<>>
    /\ got' = <<getAutoParams(given)>>
    /\ UNCHANGED <<given, clientVars, relayVars>>

TuneNext == callGetAutoParams

TuneSpec == TuneInit /\ [][TuneNext]_vars

\* --------------------------------------------------- handlePos on its own
\* Coordinates of a fix: the same place, 10 m on, 300 m on.
PosCoords ==
    {[lat |-> 0, lon |-> 0], [lat |-> 0, lon |-> 10], [lat |-> 0, lon |-> 300]}
\* coords.speed, m/s: null, a negative number, 0, 60 (216 km/h) and 100 km/s.
\* NoSpeed also stands for every value that is not of type number, and the
\* negative number for NaN, which fails speed >= 0 as it does.
PosSpeeds == {NoSpeed, <<-1>>, <<0>>, <<60>>, <<100000>>}
\* Date.now() of a call minus that of the call before, ms; the device clock
\* may be set back between two calls.
PosGaps == {-1000, 0, 500, 501, 1000, 14999, 15000}

\* position, path, speedKmh and lastGeoRef.current before the first fix.
PosStart ==
    [position |-> DefaultPosition, path |-> <<>>, speedKmh |-> 0, lastGeoRef |-> NoGeo]

\* given lists the calls made, [fix, now], and got what each one returned.
PosInit ==
    /\ ClientInit
    /\ flow = "auto"
    /\ RelayInit
    /\ given = <<>>
    /\ got = <<>>

\* One more call of handlePos, on the state the previous call left.
callHandlePos ==
    /\ Len(got) < MaxCalls
    /\ \E c \in PosCoords, sp \in PosSpeeds, d \in PosGaps :
         LET fix == [lat |-> c.lat, lon |-> c.lon, speed |-> sp]
             now == IF given = <<>> THEN StartClock ELSE Last(given).now + d
             st == IF got = <<>> THEN PosStart ELSE Last(got)
         IN  /\ given' = Append(given, [fix |-> fix, now |-> now])
             /\ got' = Append(got, AfterFix(st, fix, now))
    /\ UNCHANGED <<clientVars, relayVars>>

PosNext == callHandlePos

PosSpec == PosInit /\ [][PosNext]_vars

\* ------------------------------------------------ claims, segment correlator
\* The distance in cm from q[i] to q[i + 1].
Leg(q, i) == haversineMeters(q[i][1], q[i][2], q[i + 1][1], q[i + 1][2])
\* The cumulative distance along the points q[i], ..., q[Len(q)].
RECURSIVE AlongFrom(_, _)
AlongFrom(q, i) == IF i >= Len(q) THEN 0 ELSE Leg(q, i) + AlongFrom(q, i + 1)
\* Consecutive points of q are exactly 10 m apart.
TenMetresApart(q) == \A i \in 1..(Len(q) - 1) : Leg(q, i) = 1000
\* The event's coordinates as a segment element.
CenterPoint == <<given.center.lat, given.center.lon>>
\* The call has returned and has added a segment.
SegmentAdded == got # <<>> /\ Len(got[1]) = Len(given.segs) + 1

\* C11: for a Path of points exactly 10 m apart and an event at its newest
\* point, the segment added covers at least 30 m along its own points, or is
\* the whole Path from its first point when the Path is shorter than 30 m.
C11_SegmentSpansTarget ==
    got # <<>> /\ Len(given.path) >= 2 /\ TenMetresApart(given.path)
               /\ CenterPoint = Last(given.path) =>
      /\ SegmentAdded
      /\ \/ AlongFrom(Last(got[1]), 1) >= 3000
         \/ /\ AlongFrom(given.path, 1) < 3000
            /\ Last(got[1]) = given.path \o <<CenterPoint>>

\* The backtrack accumulates the legs Path[i] -> Path[i - 1] from the newest
\* point down; StopIndex is the i of the last leg it accumulates: the first
\* one at which the sum reaches 30 m, or 2 when the Path start is reached.
StopIndex(q) ==
    IF \E i \in 2..Len(q) : AlongFrom(q, i - 1) >= 3000
    THEN CHOOSE i \in 2..Len(q) :
           /\ AlongFrom(q, i - 1) >= 3000
           /\ \A j \in (i + 1)..Len(q) : AlongFrom(q, j - 1) < 3000
    ELSE 2

\* C12: a segment is the contiguous run of Path points, oldest first, from
\* the older endpoint of the last leg accumulated to the newest Path point,
\* followed by the event's coordinates.
C12_SegmentIsPathRun ==
    SegmentAdded =>
      Last(got[1]) =
        SubSeq(given.path, StopIndex(given.path) - 1, Len(given.path))
          \o <<CenterPoint>>

\* What C13 requires of one step.
C13_NoSegmentOnShortPath_Step ==
    /\ SampleStep
    /\ flow = "auto"
    /\ Len(path) < 2
    /\ Qualifies(motionHandlerRef[1], sample'[1], clock)
    /\ sample'[1] >= highThreshold(motionHandlerRef[1])
    => /\ redSegments' = redSegments
       /\ LocalFire
       /\ Len(bumps') = Len(bumps) + 1

\* C13: a strong event that arrives while the Path holds fewer than two
\* points adds no segment, and its bump is still displayed and published.
C13_NoSegmentOnShortPath == [][C13_NoSegmentOnShortPath_Step]_vars

\* C13 witness: a strong event has just fired with one point in the Path.
C13_StrongEventOnOnePoint ==
    /\ flow = "auto"
    /\ sample # <<>>
    /\ motionHandlerRef # NoHandler
    /\ lastBumpRef = clock
    /\ sample[1] >= highThreshold(motionHandlerRef[1])
    /\ Len(path) = 1
    /\ bumps # <<>>

\* What C14 requires of one step.
C14_SegmentsOnlyFromStrongFirings_Step ==
    /\ redSegments' # redSegments =>
         /\ SampleStep
         /\ LocalFire
         /\ sample'[1] >= highThreshold(motionHandlerRef[1])
         /\ Len(redSegments') = Len(redSegments) + 1
    /\ Len(redSegments') >= Len(redSegments)
    /\ SubSeq(redSegments', 1, Len(redSegments)) = redSegments
    /\ motionHandlerRef # NoHandler =>
         highThreshold(motionHandlerRef[1]) >= motionHandlerRef[1].effectiveSensitivity
    /\ highThreshold(Closure) >= effectiveSensitivity

\* C14: a segment is added only by a firing whose metric reaches the high
\* threshold, the high threshold is never below the firing threshold, and
\* the segments already listed are kept, in order, by every step.
C14_SegmentsOnlyFromStrongFirings == [][C14_SegmentsOnlyFromStrongFirings_Step]_vars

\* C14 witness: a segment is listed and a remote bump has arrived after it.
C14_SegmentKept ==
    /\ redSegments # <<>>
    /\ bumps # <<>>
    /\ Head(bumps) \in RemoteBumps

\* ------------------------------------------------------- claims, auto-tuner
\* A (cooldown ms, sensitivity m/s^2) pair in the model's units.
Tuning(c, m) == [cooldown |-> c, sensitivity |-> 1000 * m]

\* C15: getAutoParams returns (2500,10) below 5 km/h, (1800,12) from 5 to
\* below 25, (1200,14) from 25 to below 60 and (800,16) from 60 on; a higher
\* speed never gets a lower sensitivity or a longer cooldown; and
\* tuning(4), tuning(5), tuning(24.9), tuning(60) are as listed.
C15_TuningTable ==
    got # <<>> =>
      /\ given < 500 => got[1] = Tuning(2500, 10)
      /\ given >= 500 /\ given < 2500 => got[1] = Tuning(1800, 12)
      /\ given >= 2500 /\ given < 6000 => got[1] = Tuning(1200, 14)
      /\ given >= 6000 => got[1] = Tuning(800, 16)
      /\ \A s2 \in TuneSpeeds :
           given <= s2 =>
             /\ got[1].sensitivity <= getAutoParams(s2).sensitivity
             /\ got[1].cooldown >= getAutoParams(s2).cooldown
      /\ given = 400 => got[1] = Tuning(2500, 10)
      /\ given = 500 => got[1] = Tuning(1800, 12)
      /\ given = 2490 => got[1] = Tuning(1800, 12)
      /\ given = 6000 => got[1] = Tuning(800, 16)

\* C15 witness: getAutoParams has been applied to 24.9 km/h.
C15_TunedJustBelowLimit == got # <<>> /\ given = 2490

\* The (cooldown, threshold) pair a listener classifies with.
PairOf(h) == <<h.effectiveCooldown, h.effectiveSensitivity>>

\* C16: the pair the registered listener classifies with is getAutoParams of
\* one speed, the speed that listener holds, or the pair of manual values;
\* both of its values are positive.
C16_TuningFromOneSource ==
    flow \in {"simple", "auto"} /\ motionHandlerRef # NoHandler =>
      LET h == motionHandlerRef[1]
      IN  /\ h.effectiveCooldown > 0
          /\ h.effectiveSensitivity > 0
          /\ \/ /\ flow = "auto"
                /\ PairOf(h) = <<getAutoParams(h.speedKmh).cooldown,
                                 getAutoParams(h.speedKmh).sensitivity>>
             \/ PairOf(h) = <<manualCooldownMs, manualSensitivity>>

\* C16 witness: a sample was classified in manual mode, after a speed
\* update had left the lowest bracket and a slider had been moved.
C16_ManualAfterSpeedAndSlider ==
    /\ flow = "auto"
    /\ sample # <<>>
    /\ ~autoTune
    /\ speedKmh >= 500
    /\ manualSensitivity # 12000

\* ------------------------------------------------------ claims, geo tracker
\* The state call k of handlePos started from.
Before(k) == IF k = 1 THEN PosStart ELSE got[k - 1]
\* Date.now() of call k minus that of the call before it (k > 1).
Elapsed(k) == given[k].now - given[k - 1].now
\* The fix of call k reports a speed the handler uses.
NativeUsable(k) == given[k].fix.speed # NoSpeed /\ given[k].fix.speed[1] >= 0
\* Distance in cm between the fixes of calls k - 1 and k.
Travelled(k) ==
    haversineMeters(given[k - 1].fix.lat, given[k - 1].fix.lon,
                    given[k].fix.lat, given[k].fix.lon)
\* A speed in 0.01 km/h limited to [0, 180] km/h.
Limited(v) == IF v > 18000 THEN 18000 ELSE IF v < 0 THEN 0 ELSE v

\* C17: a fix without native speed that comes more than 0.5 s and less than
\* 15 s after the fix before it sets the speed to the distance between the
\* two over the elapsed time, in km/h limited to [0, 180], whether or not
\* the fix before carried a native speed.
C17_DerivedFromPrecedingFix ==
    \A k \in 2..Len(got) :
      given[k].fix.speed = NoSpeed /\ Elapsed(k) > 500 /\ Elapsed(k) < 15000 =>
        got[k].speedKmh = Limited((Travelled(k) * 3600) \div Elapsed(k))

\* C17 witness: a speed was derived from a fix that had carried a native
\* speed, and the derived value was limited to 180 km/h.
C17_DerivedAfterNative ==
    /\ Len(got) >= 2
    /\ NativeUsable(1)
    /\ given[2].fix.speed = NoSpeed
    /\ Elapsed(2) > 500 /\ Elapsed(2) < 15000
    /\ (Travelled(2) * 3600) \div Elapsed(2) > 18000

\* C18: a fix with a native speed >= 0 sets the speed to that value times
\* 3.6, limited to [0, 180] km/h, whatever the elapsed time and distance.
C18_NativeSpeedUsed ==
    \A k \in 1..Len(got) :
      NativeUsable(k) => got[k].speedKmh = Limited(given[k].fix.speed[1] * 360)

\* C18 witness: a fix with native speed 0 came inside the derivation window
\* a distance away from the fix before it.
C18_NativeWhereDerivable ==
    /\ Len(got) >= 2
    /\ given[2].fix.speed = <<0>>
    /\ Elapsed(2) > 500 /\ Elapsed(2) < 15000
    /\ Travelled(2) > 0
    /\ got[1].speedKmh > 0

\* C19: a fix without usable native speed that is the first one, or comes
\* at most 0.5 s or at least 15 s after the fix before it, leaves the speed
\* as it was and is recorded: position and previous-fix reference are its
\* own, and its point is appended to the Path unless equal to the last one.
C19_SpeedKeptFixRecorded ==
    \A k \in 1..Len(got) :
      ~NativeUsable(k) /\ (k = 1 \/ Elapsed(k) <= 500 \/ Elapsed(k) >= 15000) =>
        LET pt == <<given[k].fix.lat, given[k].fix.lon>>
            was == Before(k).path
        IN  /\ got[k].speedKmh = Before(k).speedKmh
            /\ getAutoParams(got[k].speedKmh) = getAutoParams(Before(k).speedKmh)
            /\ got[k].position = [lat |-> pt[1], lon |-> pt[2]]
            /\ got[k].lastGeoRef = <<[lat |-> pt[1], lon |-> pt[2], t |-> given[k].now]>>
            /\ IF was # <<>> /\ Last(was) = pt THEN got[k].path = was
               ELSE /\ Last(got[k].path) = pt
                    /\ Len(got[k].path) = Min(Len(was) + 1, PathCap)
                    /\ \A i \in 1..(Len(got[k].path) - 1) :
                         got[k].path[i] = was[Len(was) - Len(got[k].path) + 1 + i]

\* C19 witness: a fix without speed came exactly 0.5 s after a fix that had
\* set a speed above zero, from another place.
C19_TooSoonAfterMoving ==
    /\ Len(got) >= 2
    /\ given[2].fix.speed = NoSpeed
    /\ Elapsed(2) = 500
    /\ Travelled(2) > 0
    /\ got[1].speedKmh > 0

\* ------------------------------------------------------------ claims, relay
\* The 'bump' payloads the relay has handled, in arrival order.
BumpArrivals ==
    LET a == SelectSeq(arrivals, LAMBDA m : m.event = "bump")
    IN  [i \in 1..Len(a) |-> a[i].data]

\* C20: the relay's store never holds more records than its cap, and it is
\* always the most recent min(n, cap) of the n bumps handled, in arrival
\* order: the oldest are the ones evicted.
C20_StoreIsRecentArrivals ==
    /\ Len(serverBumps) <= StoreCap
    /\ serverBumps = LastN(BumpArrivals, Min(Len(BumpArrivals), StoreCap))

\* C20 witness: more bumps were handled than the store holds, from two
\* devices.
C20_OldestEvicted ==
    /\ Len(BumpArrivals) > StoreCap
    /\ Head(BumpArrivals) # Last(BumpArrivals)

\* The messages of kind event among those sent to socket s.
SentOf(box, s, event) == SelectSeq(box[s], LAMBDA m : m.event = event)
\* The last n records of the store, fewer when it holds fewer.
RecentOf(store, n) == LastN(store, Min(Len(store), n))

\* What C21 requires of one step.
C21_OneHeatInitOnConnect_Step ==
    /\ \A s \in sockets' \ sockets :
         outbox'[s] = <<[event |-> "heat:init",
                         data |-> RecentOf(serverBumps, InitCap)]>>
    /\ \A s \in sockets' :
         /\ Len(SentOf(outbox', s, "heat:init")) = 1
         /\ Head(outbox'[s]).event = "heat:init"
    /\ \A s \in Sockets \ sockets :
         Len(arrivals') > Len(arrivals) => Last(arrivals').data.deviceId # s

\* C21: a connecting socket is sent one 'heat:init' holding the most recent
\* min(cap, n) retained records in arrival order, n counted at connection
\* time; it is the first message of the connection and stays the only
\* 'heat:init', and no message is handled from a socket before it.
C21_OneHeatInitOnConnect == [][C21_OneHeatInitOnConnect_Step]_vars

\* C21 witness: a socket connected while the store held more records than
\* the slice, from two devices, and has been sent later messages since.
C21_ConnectedToFullStore ==
    \E s \in sockets :
      /\ Len(outbox[s]) >= 2
      /\ Len(Head(outbox[s]).data) = InitCap
      /\ Head(outbox[s]).data[1] # Head(outbox[s]).data[InitCap]
      /\ Len(serverBumps) > InitCap

\* What C22 requires of one step.
C22_ForwardedToOthers_Step ==
    Len(arrivals') > Len(arrivals) =>
      LET m == Last(arrivals')
          from == m.data.deviceId
      IN  /\ sockets' = sockets
          /\ \A t \in sockets \ {from} : outbox'[t] = Append(outbox[t], m)
          /\ \A t \in Sockets \ sockets : outbox'[t] = outbox[t]
          /\ outbox'[from] \in {outbox[from], Append(outbox[from], m)}

\* C22: every 'pos' and 'bump' the relay handles is sent once, unchanged, to
\* each other socket connected at that moment and to no unconnected one; the
\* publisher is sent no reply of another kind (a 'bump', emitted with
\* io.emit, reaches the publisher as the same message).
C22_ForwardedToOthers == [][C22_ForwardedToOthers_Step]_vars

\* C22 witness: a socket has been sent a 'pos' and a 'bump' of another
\* device.
C22_PeerGotBoth ==
    \E t \in sockets :
      /\ \E i \in 1..Len(outbox[t]) :
           outbox[t][i].event = "pos" /\ outbox[t][i].data.deviceId # t
      /\ \E i \in 1..Len(outbox[t]) :
           outbox[t][i].event = "bump" /\ outbox[t][i].data.deviceId # t

\* ---------------------------------------------------- claims, start and stop
\* The detecting flag of the running flow.
Detecting == IF flow = "jerk" THEN isCollecting ELSE detecting
\* This step resolves a permission request, with the outcome Last(given').
Resolved == Len(given') = Len(given) + 1
\* The outcomes on which a start is to succeed.
Allowed == {"absent", "granted"}

\* What C23 requires of one step.
C23_StartsIffPermitted_Step ==
    /\ Resolved /\ Last(given') \in Allowed => Detecting'
    /\ Resolved /\ Last(given') \notin Allowed =>
         /\ Detecting' = Detecting
         /\ UNCHANGED <<motionHandlerRef, listeners, watches, watchIdRef>>
         /\ Len(pending') <= Len(pending)
    /\ flow \in {"simple", "auto"} /\ ~detecting' => motionHandlerRef' = NoHandler
    /\ Detecting' /\ ~Detecting => Resolved /\ Last(given') \in Allowed

\* C23: a start whose permission request finds the API absent or resolves to
\* 'granted' sets the detecting flag; one whose request is denied or throws
\* leaves the flag as it was, registers no motion listener and no position
\* watch, and leaves no request pending in its place; the flag is set by
\* nothing else, and no listener is registered while it is false.
C23_StartsIffPermitted == [][C23_StartsIffPermitted_Step]_vars

\* C23 witness: detection is running on a device without the permission API
\* after a request that threw and one that was denied.
C23_StartedAfterRefusals ==
    /\ Detecting
    /\ Len(given) >= 3
    /\ Last(given) = "absent"
    /\ \E i, j \in 1..Len(given) : given[i] = "throws" /\ given[j] = "denied"

\* Detection has run, for it has fired, and it has been stopped since.
StoppedAfterRun ==
    ~Detecting /\ (IF flow = "jerk" THEN lastBumpTs # 0 ELSE lastBumpRef # 0)
\* The positions published so far.
PosMsgs(out) == SelectSeq(out, LAMBDA m : m.event = "pos")

\* What C24 requires of one step.
C24_NoFixWhileStopped_Step ==
    StoppedAfterRun /\ ~Detecting' =>
      /\ UNCHANGED <<path, position, lastGeoRef, lastPosRef, speedKmh, fixes>>
      /\ PosMsgs(emitted') = PosMsgs(emitted)

\* C24: from a stop to the next start no position fix is consumed: the
\* Path, the latest fix, the speed and the published positions stay as the
\* stop left them.
C24_NoFixWhileStopped == [][C24_NoFixWhileStopped_Step]_vars

\* ------------------------------------------------ claims, jerk-based detector
\* What C25 requires of one step.
C25_NoFiringBeforeFirstFix_Step ==
    flow = "jerk" /\ fixes = <<>> /\ fixes' = <<>> =>
      /\ heat' = heat
      /\ emitted' = emitted
      /\ lastBumpTs' = lastBumpTs

\* C25: in the jerk-based flow, as long as no fix has been delivered no
\* motion sample draws a heat dot or publishes anything, and the time of the
\* last bump stays unset.
C25_NoFiringBeforeFirstFix == [][C25_NoFiringBeforeFirstFix_Step]_vars

\* C25 witness: a running detector without a fix has handled a sample whose
\* jerk is above the threshold, the minimum gap long over, and drawn nothing.
C25_StrongSampleWithoutFix ==
    /\ flow = "jerk"
    /\ isCollecting
    /\ fixes = <<>>
    /\ \E i \in 1..Len(listeners) :
         /\ listeners[i].prev.t > 0
         /\ (Abs(listeners[i].prev.a) * 1000) \div listeners[i].prev.t > cfg.jerkThresh
    /\ clock - lastBumpTs >= cfg.minGapMs
    /\ heat = <<>>

\* C26: after every fix the speed is a number in [0, 180] km/h, whatever the
\* native speeds (null, negative, huge) and the elapsed times (zero and
\* negative ones included) of the fixes so far.
C26_SpeedWithinLimits ==
    \A k \in 1..Len(got) : got[k].speedKmh >= 0 /\ got[k].speedKmh <= 18000

\* C26 witness: a fix with a huge native speed was followed, with the clock
\* set back, by a fix with a negative one, and the speed is at the limit.
C26_HugeThenClockSetBack ==
    /\ Len(got) >= 2
    /\ given[1].fix.speed = <<100000>>
    /\ given[2].fix.speed = <<-1>>
    /\ Elapsed(2) < 0
    /\ got[2].speedKmh = 18000

\* What C27 requires of one step.
C27_MinSpeedOnlyInJerkFlow_Step ==
    /\ flow = "jerk" /\ lastPosRef.speed < cfg.minSpeedMps =>
         /\ heat' = heat
         /\ ~LocalFire
    /\ SampleStep /\ sample'[1] > ThresholdInEffect
                  /\ clock - lastBumpRef > CooldownInEffect
                  /\ motionHandlerRef[1].speedKmh = 0 => LocalFire

\* C27: in the jerk-based flow no sample fires while the speed of the latest
\* fix, 0 when the fix has none, is below the minimum speed; in the simple
\* and auto-tuned flows a sample above the threshold, the cooldown over,
\* fires at speed 0.
C27_MinSpeedOnlyInJerkFlow == [][C27_MinSpeedOnlyInJerkFlow_Step]_vars

\* C27 witness: a running jerk detector whose latest fix reports 1 m/s has
\* handled a sample with jerk above the threshold and drawn nothing.
C27_StrongSampleWhileSlow ==
    /\ flow = "jerk"
    /\ isCollecting
    /\ lastPosRef.lat # <<>>
    /\ lastPosRef.speed = 1
    /\ \E i \in 1..Len(listeners) :
         /\ listeners[i].prev.t = PerfNow
         /\ (Abs(listeners[i].prev.a) * 1000) \div listeners[i].prev.t > cfg.jerkThresh
    /\ lastBumpTs = 0
    /\ heat = <<>>

\* -------------------------------------------- claims, backtrack scan cap
\* The Path points a backtrack visited: one per element of the segment it
\* built, the event's coordinates aside.
Visited(seg) == Len(seg) - 1
\* A scan cap in the scale of these Paths: enough for 30 m of points 10 m
\* apart, and short of the longest Path.
ScanCap == MaxSegLen - 2

\* C28: the backtrack returns having visited no more Path points than the
\* scan cap, however close to one another the points are.
C28_ScanIsCapped ==
    got # <<>> /\ SegmentAdded => Visited(Last(got[1])) <= ScanCap

\* ------------------------------------------------- claims, echo of a bump
\* How many elements of q equal x.
CountOf(q, x) == Cardinality({i \in 1..Len(q) : q[i] = x})
\* The bump records this device has detected and published.
LocalBumps ==
    {emitted[i].data : i \in {j \in 1..Len(emitted) : emitted[j].event = "bump"}}

\* C29: every bump this device has detected is on its heat layer exactly
\* once, also after the relay has sent the bump back to it.
C29_LocalBumpDrawnOnce == \A b \in LocalBumps : CountOf(heat, b) = 1

\* ------------------------------------------------- claims, subscriptions
\* The devicemotion listeners registered on window.
MotionListeners == IF flow = "jerk" THEN Len(listeners) ELSE Len(motionHandlerRef)

\* What C30 requires of one step.
C30_OneWatchOneListener_Step ==
    /\ Cardinality(watches') <= 1
    /\ MotionListeners' <= 1
    /\ Detecting /\ ~Detecting' => watches' = {} /\ MotionListeners' = 0

\* C30: at no time is there more than one active position watch made by a
\* start or more than one registered motion listener, and a stop leaves
\* none of either, also when start was pressed again while a start was
\* awaiting the permission prompt.
C30_OneWatchOneListener == [][C30_OneWatchOneListener_Step]_vars

\* --------------------------------------------------- claims, message kinds
\* What the device shows of the bumps: the heat layer or the bump list.
Display == IF flow = "jerk" THEN heat ELSE bumps

\* In this step the relay is handed a bump the device has published.
RelayHandedBump ==
    /\ Len(FromMe(arrivals')) > Len(FromMe(arrivals))
    /\ Last(arrivals').event \in {"send-bump", "bump"}

\* In this step the device's socket is handed a bump of another device.
DeviceHandedBump ==
    /\ events' = events + 1
    /\ Me \in sockets
    /\ outbox[Me] # <<>>
    /\ outbox'[Me] = Tail(outbox[Me])
    /\ Head(outbox[Me]).event = "bump"
    /\ FromPeer(Head(outbox[Me]).data)

\* What C31 requires of the relay when it is handed the device's bump.
C31_Accepted_Step ==
    RelayHandedBump =>
      LET b == Last(arrivals').data
      IN  /\ serverBumps' # <<>>
          /\ Last(serverBumps') = b
          /\ \A t \in sockets \ {Me} :
                /\ Len(outbox'[t]) = Len(outbox[t]) + 1
                /\ Last(outbox'[t]).data = b

\* What C31 requires of the device when it is handed another device's bump.
C31_Displayed_Step ==
    DeviceHandedBump =>
      LET b == Head(outbox[Me]).data
      IN  CountOf(Display', b) = CountOf(Display, b) + 1

\* What C31 requires of one step.
C31_BumpsReachPeers_Step == C31_Accepted_Step /\ C31_Displayed_Step

\* C31: a bump the device publishes is retained by the relay and sent on to
\* every other connected socket when the relay is handed it, and a bump of
\* another device is added to the device's display when the relay's
\* message is handed to the device's socket.
C31_BumpsReachPeers == [][C31_BumpsReachPeers_Step]_vars

\* ------------------------------------------------ claims, default position
\* The coordinates the location source has reported so far.
Reported == {fixes[i] : i \in 1..Len(fixes)}

\* What C32 requires of one step.
C32_TagWasReported_Step ==
    LocalFire /\ flow \in {"simple", "auto"} =>
      TagCoords(Last(BumpMsgs(emitted')).data) \in Reported

\* C32: in the simple and auto flows every locally produced bump carries
\* coordinates the location source has reported; one fired before the
\* first fix is not tagged with a position nobody reported.
C32_TagWasReported == [][C32_TagWasReported_Step]_vars

====
